---- MODULE Spec2Model ----
(***************************************************************************)
(* A model of debug_toolbar/panels/sqlalchemy.py: SQLAlchemyPanel, the     *)
(* request-scoped panel that discovers the engines of a request's          *)
(* sessions, attaches before/after cursor-execute listeners to them for    *)
(* the time of the request and logs one timed record per statement.        *)
(*                                                                         *)
(* One panel instance serves one request.  The engines and their listener  *)
(* registry (sqlalchemy.event) are shared by all requests in flight.       *)
(***************************************************************************)
EXTENDS Integers, Sequences, FiniteSets, TLC

(***************************************************************************)
(* Bounds of the model.                                                    *)
(***************************************************************************)
\* resolved dependency values per request
MaxDeps == 2
\* statements executed in one run, by all requests together
MaxStmts == 2
\* last reading of the monotonic clock
MaxClock == 2
\* direct calls of unregister by outside code in one run
MaxManual == 1

Panels == {"p1", "p2"}
Engines == {"e1", "e2"}

\* str(engine.url)
EngineUrl(e) == IF e = "e1" THEN "postgresql://db/app" ELSE "postgresql://db/shard2"

(***************************************************************************)
(* Resolved dependency values (the values of solved_result[0]).            *)
(*   kind  : "other" | "Session" | "AsyncSession"                          *)
(*   binds : the values of the session's _Session__binds, in dict order    *)
(*   bind  : what get_bind() gives: an Engine, a Connection, or it raises  *)
(*           UnboundExecutionError (type "Unbound")                        *)
(* An AsyncSession carries the binds and the bind of its sync_session.     *)
(***************************************************************************)
EngineBind(e) == [type |-> "Engine", engine |-> e]
ConnectionBind(e) == [type |-> "Connection", engine |-> e]
Unbound == [type |-> "Unbound", engine |-> "none"]

OtherValue == [kind |-> "other", binds |-> <<>>, bind |-> Unbound]
SessionValue(binds, bind) == [kind |-> "Session", binds |-> binds, bind |-> bind]
AsyncSessionValue(binds, bind) == [kind |-> "AsyncSession", binds |-> binds, bind |-> bind]

\* a session bound to two engines, to one of them by an Engine and by a
\* Connection
ShardedSession ==
    SessionValue(<<EngineBind("e1"), ConnectionBind("e1"), EngineBind("e2")>>, Unbound)

DepValues ==
    { OtherValue,
      SessionValue(<<>>, EngineBind("e1")),
      SessionValue(<<>>, ConnectionBind("e1")),
      SessionValue(<<>>, Unbound),
      ShardedSession,
      AsyncSessionValue(<<>>, EngineBind("e2")) }

ValueSeqs(n) == UNION { [1..k -> DepValues] : k \in 0..n }

(***************************************************************************)
(* A request: whether its route has a dependant, how solve_dependencies    *)
(* ends for it ("ok", "http": HTTPException, "error": another exception),  *)
(* the values it resolves to, and how the rest of the pipeline ends for    *)
(* it ("response" or "raise").  A dependency that fails with another       *)
(* exception fails the same way in the pipeline; an HTTPException becomes  *)
(* an error response there.                                                *)
(***************************************************************************)
NoRequest == [dependant |-> FALSE, solve |-> "absent", values |-> <<>>, delegate |-> "absent"]

Requests(seqs) ==
    { [dependant |-> FALSE, solve |-> "ok", values |-> <<>>, delegate |-> d] :
        d \in {"response", "raise"} }
    \cup { [dependant |-> TRUE, solve |-> "http", values |-> <<>>, delegate |-> "response"],
           [dependant |-> TRUE, solve |-> "error", values |-> <<>>, delegate |-> "raise"] }
    \cup { [dependant |-> TRUE, solve |-> "ok", values |-> v, delegate |-> d] :
             v \in seqs, d \in {"response", "raise"} }

\* the requests served two at a time
SharedSeqs == { <<SessionValue(<<>>, EngineBind("e1"))>>, <<ShardedSession>> }

Return(v) == [kind |-> "return", val |-> v]
Raise(v) == [kind |-> "raise", val |-> v]
NoOutcome == [kind |-> "none", val |-> "none"]

\* how super().process_request ends for request r
DelegateOutcome(r) ==
    IF r.delegate = "response" THEN Return("R")
    ELSE IF r.solve = "error" THEN Raise("DependencyError")
    ELSE Raise("HandlerError")

NoStart == -1
NoStmt == [engine |-> "none", start |-> NoStart, sql |-> <<>>, params |-> "none",
           phase |-> "none", executed |-> FALSE]

\* no AsyncExitStack yet; one is created at line 59, and nothing in lines
\* 44-86 ever closes it
NoExitStack == [created |-> FALSE, callbacks |-> {}, closed |-> FALSE]

\* the exit callbacks solve_dependencies pushes on the stack it is given: one
\* for each resolved session, which a yield-style dependency opened and closes
\* on exit
ExitCallbacks(r) ==
    { i \in DOMAIN r.values : r.values[i].kind \in {"Session", "AsyncSession"} }

VARIABLES
    request,    \* the request each panel instance serves
    pc,         \* where each process_request call is
    engines,    \* self.engines
    pending,    \* the engines the running for-loop has still to visit
    exc,        \* the exception in flight while the finally block runs
    response,   \* the local variable response
    outcome,    \* how process_request ended
    queries,    \* the Query Log (SQLPanel): a sequence of <<alias, query>>
    before,     \* engine -> panels whose before_execute listens on it
    after,      \* engine -> panels whose after_execute listens on it
    clock,      \* perf_counter()
    stmt,       \* the statement each request has in flight (its ExecutionContext)
    executed,   \* history: the statements each request has executed
    calls,      \* history: register / unregister calls per panel and engine
    manual,     \* history: the direct calls of unregister by outside code
    exit_stack, \* the AsyncExitStack of line 59 and the callbacks pushed on it
    resolutions \* history: how often each request's dependency graph was resolved

vars == <<request, pc, engines, pending, exc, response, outcome, queries,
          before, after, clock, stmt, executed, calls, manual, exit_stack,
          resolutions>>

(***************************************************************************)
(* sqlalchemy.event, as used by lines 23-28.                               *)
(***************************************************************************)
\* event.listen(engine, identifier, fn): a second listen of the same
\* (engine, identifier, fn) adds nothing
Listen(reg, engine, p) == [reg EXCEPT ![engine] = @ \cup {p}]

\* event.remove(engine, identifier, fn) raises InvalidRequestError when fn was
\* not listening
RemoveRaises(reg, engine, p) == p \notin reg[engine]
\* a removal that drops every listener of the engine, not only fn
RemoveEveryListener(reg, engine, p) == [reg EXCEPT ![engine] = {}]
Remove(reg, engine, p) == [reg EXCEPT ![engine] = @ \ {p}]

\* UnregisterResult without the removal of line 28
UnregisterResultBeforeOnly(bef, aft, engine, p) ==
    IF RemoveRaises(bef, engine, p)
    THEN [before |-> bef, after |-> aft, raised |-> TRUE]
    ELSE [before |-> Remove(bef, engine, p), after |-> aft, raised |-> FALSE]

\* unregister(engine), lines 26-28: the result registries and whether it raised
UnregisterResult(bef, aft, engine, p) ==
    IF RemoveRaises(bef, engine, p)
    THEN [before |-> bef, after |-> aft, raised |-> TRUE]
    ELSE IF RemoveRaises(aft, engine, p)
    THEN [before |-> Remove(bef, engine, p), after |-> aft, raised |-> TRUE]
    ELSE [before |-> Remove(bef, engine, p), after |-> Remove(aft, engine, p),
          raised |-> FALSE]

(***************************************************************************)
(* add_engines, lines 44-74.                                               *)
(***************************************************************************)
\* add_bind_to_engines that takes engines only and passes over a Connection
add_bind_engines_only(engs, bind) ==
    IF bind.type = "Connection" THEN engs ELSE engs \cup {bind.engine}

\* add_bind_to_engines, lines 45-49: a Connection adds its engine, an Engine
\* (the bind itself) adds that engine
add_bind_to_engines(engs, bind) ==
    IF bind.type = "Connection" THEN engs \cup {bind.engine} ELSE engs \cup {bind.engine}

RECURSIVE AddBinds(_, _)
\* lines 70-71
AddBinds(engs, binds) ==
    IF binds = <<>> THEN engs
    ELSE AddBinds(add_bind_to_engines(engs, Head(binds)), Tail(binds))

\* lines 65-66: an AsyncSession is replaced by its sync_session
Unwrap(value) ==
    IF value.kind = "AsyncSession" THEN [value EXCEPT !.kind = "Session"] ELSE value

\* InspectValue with get_bind asked of every session, its binds ignored
InspectValueGetBindOnly(engs, value) ==
    LET v == Unwrap(value) IN
    IF v.kind # "Session" THEN [engines |-> engs, raised |-> FALSE]
    ELSE IF v.bind.type = "Unbound" THEN [engines |-> engs, raised |-> TRUE]
    ELSE [engines |-> add_bind_to_engines(engs, v.bind), raised |-> FALSE]

\* InspectValue without the isinstance test of line 67
InspectValueNoTypeCheck(engs, value) ==
    LET v == Unwrap(value) IN
    IF v.binds # <<>> THEN [engines |-> AddBinds(engs, v.binds), raised |-> FALSE]
    ELSE IF v.bind.type = "Unbound" THEN [engines |-> engs, raised |-> TRUE]
    ELSE [engines |-> add_bind_to_engines(engs, v.bind), raised |-> FALSE]

\* lines 65-74 for one value: the engine set after it, and whether it raised
InspectValue(engs, value) ==
    LET v == Unwrap(value) IN
    IF v.kind # "Session" THEN [engines |-> engs, raised |-> FALSE]
    ELSE IF v.binds # <<>> THEN [engines |-> AddBinds(engs, v.binds), raised |-> FALSE]
    ELSE IF v.bind.type = "Unbound" THEN [engines |-> engs, raised |-> TRUE]
    ELSE [engines |-> add_bind_to_engines(engs, v.bind), raised |-> FALSE]

RECURSIVE InspectValues(_, _)
\* the loop of line 64: it ends at the first value whose inspection raises
InspectValues(engs, values) ==
    IF values = <<>> THEN [engines |-> engs, raised |-> FALSE]
    ELSE LET r == InspectValue(engs, Head(values)) IN
         IF r.raised THEN r ELSE InspectValues(r.engines, Tail(values))

(***************************************************************************)
(* The hooks, lines 30-42.                                                 *)
(***************************************************************************)
\* line 31: every before_execute listening on the engine stores the clock
StartTime(listeners, now) == IF listeners = {} THEN NoStart ELSE now

\* lines 35-38
Duration(start, now) == (now - start) * 1000

\* Query with the start time kept in one field that every before event
\* overwrites, instead of on the statement's own context
QuerySharedStart(ctx, now) ==
    LET starts == { stmt[q].start : q \in { x \in Panels : stmt[x] # NoStmt } }
        last == CHOOSE t \in starts : \A u \in starts : u <= t
    IN [duration |-> Duration(last, now), sql |-> ctx.sql, params |-> ctx.params]

\* Query with the statement text in the place of the parameters
QueryStatementAsParams(ctx, now) ==
    [duration |-> Duration(ctx.start, now), sql |-> ctx.sql, params |-> ctx.sql]

\* lines 34-41
Query(ctx, now) ==
    [duration |-> Duration(ctx.start, now), sql |-> ctx.sql, params |-> ctx.params]

\* SQLPanel.add_query(alias, query)
add_query(log, alias, query) == Append(log, <<alias, query>>)

\* the bound parameters of a request's n-th statement
Params(n) == IF n = 1 THEN "()" ELSE "{}"

\* the engines one resolved value is bound to
SessionEngines(value) ==
    LET v == Unwrap(value) IN
    IF v.kind # "Session" THEN {}
    ELSE IF v.binds # <<>> THEN { v.binds[i].engine : i \in DOMAIN v.binds }
    ELSE IF v.bind.type = "Unbound" THEN {}
    ELSE {v.bind.engine}

\* the engines of a request's sessions
BoundEngines(r) == UNION { SessionEngines(r.values[i]) : i \in DOMAIN r.values }

\* the engines a request's statements go through: those of its sessions, or
\* an engine of the application when it has no session
Reach(r) == IF BoundEngines(r) = {} THEN {"e1"} ELSE BoundEngines(r)

(***************************************************************************)
(* Initial states: either one request in flight, with any resolved values, *)
(* or two requests in flight whose sessions share engines.                 *)
(***************************************************************************)
\* one request in flight, with any resolved values
SingleRequests ==
    { [p \in Panels |-> IF p = "p1" THEN r ELSE NoRequest] :
        r \in Requests(ValueSeqs(MaxDeps)) }

\* two requests in flight whose sessions share engines
SharedRequests ==
    { rr \in [Panels -> Requests(SharedSeqs)] :
        /\ \A p \in Panels : rr[p].dependant /\ rr[p].solve = "ok"
        /\ rr["p1"].values = <<SessionValue(<<>>, EngineBind("e1"))>> }

\* an Engine Set that still holds an engine of an earlier request
LeftOverEngineSet == {"e2"}

\* line 20: the Engine Set a panel is constructed with
NewEngineSet == {}

\* the panels as constructed (lines 18-20), one for each request
Init ==
    /\ request \in SingleRequests \cup SharedRequests
    /\ pc = [p \in Panels |-> "idle"]
    /\ engines = [p \in Panels |-> NewEngineSet]
    /\ pending = [p \in Panels |-> {}]
    /\ exc = [p \in Panels |-> "none"]
    /\ response = [p \in Panels |-> "none"]
    /\ outcome = [p \in Panels |-> NoOutcome]
    /\ queries = [p \in Panels |-> <<>>]
    /\ before = [e \in Engines |-> {}]
    /\ after = [e \in Engines |-> {}]
    /\ clock = 0
    /\ stmt = [p \in Panels |-> NoStmt]
    /\ executed = [p \in Panels |-> <<>>]
    /\ calls = [p \in Panels |-> [e \in Engines |-> [reg |-> 0, unreg |-> 0]]]
    /\ manual = <<>>
    /\ exit_stack = [p \in Panels |-> NoExitStack]
    /\ resolutions = [p \in Panels |-> 0]

(***************************************************************************)
(* process_request, lines 76-86.                                           *)
(***************************************************************************)
\* line 77 up to the await of line 55, or to the return of add_engines when
\* the route has no dependant (line 53)
StartRequest(p) ==
    /\ pc[p] = "idle"
    /\ request[p] # NoRequest
    /\ IF request[p].dependant
       THEN /\ pc' = [pc EXCEPT ![p] = "solving"]
            /\ pending' = pending
       ELSE /\ pc' = [pc EXCEPT ![p] = "install"]
            /\ pending' = [pending EXCEPT ![p] = engines[p]]
    /\ UNCHANGED <<request, engines, exc, response, outcome, queries, before, after,
                   clock, stmt, executed, calls, manual>>
    /\ exit_stack' = IF request[p].dependant
                     THEN [exit_stack EXCEPT ![p].created = TRUE] ELSE exit_stack
    /\ UNCHANGED resolutions

\* lines 55-74: solve_dependencies returns and the resolved values are inspected
SolveOk(p) ==
    /\ pc[p] = "solving"
    /\ request[p].solve = "ok"
    /\ stmt[p] = NoStmt
    /\ LET r == InspectValues(engines[p], request[p].values) IN
         /\ engines' = [engines EXCEPT ![p] = r.engines]
         /\ IF r.raised
            THEN /\ pc' = [pc EXCEPT ![p] = "done"]
                 /\ outcome' = [outcome EXCEPT ![p] = Raise("UnboundExecutionError")]
                 /\ pending' = pending
            ELSE /\ pc' = [pc EXCEPT ![p] = "install"]
                 /\ outcome' = outcome
                 /\ pending' = [pending EXCEPT ![p] = r.engines]
    /\ UNCHANGED <<request, exc, response, queries, before, after, clock, stmt,
                   executed, calls, manual>>
    /\ exit_stack' = [exit_stack EXCEPT ![p].callbacks = ExitCallbacks(request[p])]
    /\ resolutions' = [resolutions EXCEPT ![p] = @ + 1]

\* SolveHTTPException without the except clause of lines 61-62
SolveHTTPExceptionPropagates(p) ==
    /\ pc[p] = "solving"
    /\ request[p].solve = "http"
    /\ stmt[p] = NoStmt
    /\ pc' = [pc EXCEPT ![p] = "done"]
    /\ outcome' = [outcome EXCEPT ![p] = Raise("HTTPException")]
    /\ UNCHANGED <<request, engines, pending, exc, response, queries, before, after,
                   clock, stmt, executed, calls, manual>>
    /\ resolutions' = [resolutions EXCEPT ![p] = @ + 1]
    /\ UNCHANGED exit_stack

\* lines 61-62: solve_dependencies raises HTTPException
SolveHTTPException(p) ==
    /\ pc[p] = "solving"
    /\ request[p].solve = "http"
    /\ stmt[p] = NoStmt
    /\ pc' = [pc EXCEPT ![p] = "install"]
    /\ pending' = [pending EXCEPT ![p] = engines[p]]
    /\ UNCHANGED <<request, engines, exc, response, outcome, queries, before, after,
                   clock, stmt, executed, calls, manual>>
    /\ resolutions' = [resolutions EXCEPT ![p] = @ + 1]
    /\ UNCHANGED exit_stack

\* line 55: solve_dependencies raises an exception that is no HTTPException
SolveError(p) ==
    /\ pc[p] = "solving"
    /\ request[p].solve = "error"
    /\ stmt[p] = NoStmt
    /\ pc' = [pc EXCEPT ![p] = "done"]
    /\ outcome' = [outcome EXCEPT ![p] = Raise("DependencyError")]
    /\ UNCHANGED <<request, engines, pending, exc, response, queries, before, after,
                   clock, stmt, executed, calls, manual>>
    /\ resolutions' = [resolutions EXCEPT ![p] = @ + 1]
    /\ UNCHANGED exit_stack

\* Register without the listener of line 24
RegisterBeforeOnly(p, e) ==
    /\ pc[p] = "install"
    /\ e \in pending[p]
    /\ before' = Listen(before, e, p)
    /\ pending' = [pending EXCEPT ![p] = @ \ {e}]
    /\ calls' = [calls EXCEPT ![p][e].reg = @ + 1]
    /\ UNCHANGED <<request, pc, engines, exc, response, outcome, queries, after, clock,
                   stmt, executed, manual>>
    /\ UNCHANGED <<exit_stack, resolutions>>

\* lines 79-80, one turn of the loop
Register(p, e) ==
    /\ pc[p] = "install"
    /\ e \in pending[p]
    /\ before' = Listen(before, e, p)
    /\ after' = Listen(after, e, p)
    /\ pending' = [pending EXCEPT ![p] = @ \ {e}]
    /\ calls' = [calls EXCEPT ![p][e].reg = @ + 1]
    /\ UNCHANGED <<request, pc, engines, exc, response, outcome, queries, clock,
                   stmt, executed, manual>>
    /\ UNCHANGED <<exit_stack, resolutions>>

\* lines 81-82: the loop is over and the rest of the pipeline is awaited
Delegate(p) ==
    /\ pc[p] = "install"
    /\ pending[p] = {}
    /\ pc' = [pc EXCEPT ![p] = "delegating"]
    /\ UNCHANGED <<request, engines, pending, exc, response, outcome, queries, before,
                   after, clock, stmt, executed, calls, manual>>
    /\ resolutions' = IF request[p].dependant
                      THEN [resolutions EXCEPT ![p] = @ + 1] ELSE resolutions
    /\ UNCHANGED exit_stack

\* AfterDelegate without the finally block: the exception leaves at once
AfterDelegateNoFinally(p) == "done"

\* lines 83-85: where process_request goes when super().process_request has
\* raised
AfterDelegate(p) == "cleanup"

\* lines 82-83: super().process_request returns or raises
DelegateSettles(p) ==
    /\ pc[p] = "delegating"
    /\ stmt[p] = NoStmt
    /\ LET o == DelegateOutcome(request[p]) IN
         /\ IF o.kind = "return"
            THEN /\ response' = [response EXCEPT ![p] = o.val]
                 /\ exc' = exc
                 /\ pc' = [pc EXCEPT ![p] = "cleanup"]
                 /\ outcome' = outcome
            ELSE /\ response' = response
                 /\ exc' = [exc EXCEPT ![p] = o.val]
                 /\ pc' = [pc EXCEPT ![p] = AfterDelegate(p)]
                 /\ outcome' = IF AfterDelegate(p) = "done"
                               THEN [outcome EXCEPT ![p] = o] ELSE outcome
    /\ pending' = [pending EXCEPT ![p] = engines[p]]
    /\ UNCHANGED <<request, engines, queries, before, after, clock, stmt, executed,
                   calls, manual>>
    /\ UNCHANGED <<exit_stack, resolutions>>

\* lines 84-85, one turn of the loop; an exception of unregister leaves the
\* loop and replaces the one in flight
Unregister(p, e) ==
    /\ pc[p] = "cleanup"
    /\ e \in pending[p]
    /\ LET r == UnregisterResult(before, after, e, p) IN
         /\ before' = r.before
         /\ after' = r.after
         /\ IF r.raised
            THEN /\ pc' = [pc EXCEPT ![p] = "done"]
                 /\ outcome' = [outcome EXCEPT ![p] = Raise("InvalidRequestError")]
            ELSE /\ pc' = pc
                 /\ outcome' = outcome
    /\ pending' = [pending EXCEPT ![p] = @ \ {e}]
    /\ calls' = [calls EXCEPT ![p][e].unreg = @ + 1]
    /\ UNCHANGED <<request, engines, exc, response, queries, clock, stmt, executed,
                   manual>>
    /\ UNCHANGED <<exit_stack, resolutions>>

\* Finish with the exit stack of discovery closed in the finally block
FinishClosingExitStack(p) ==
    /\ pc[p] = "cleanup"
    /\ pending[p] = {}
    /\ pc' = [pc EXCEPT ![p] = "done"]
    /\ outcome' = [outcome EXCEPT ![p] =
                     IF exc[p] # "none" THEN Raise(exc[p]) ELSE Return(response[p])]
    /\ exit_stack' = [exit_stack EXCEPT ![p].closed = TRUE, ![p].callbacks = {}]
    /\ UNCHANGED <<request, engines, pending, exc, response, queries, before, after,
                   clock, stmt, executed, calls, manual, resolutions>>

\* line 86, or the exception in flight leaves the finally block
Finish(p) ==
    /\ pc[p] = "cleanup"
    /\ pending[p] = {}
    /\ pc' = [pc EXCEPT ![p] = "done"]
    /\ outcome' = [outcome EXCEPT ![p] =
                     IF exc[p] # "none" THEN Raise(exc[p]) ELSE Return(response[p])]
    /\ UNCHANGED <<request, engines, pending, exc, response, queries, before, after,
                   clock, stmt, executed, calls, manual>>
    /\ UNCHANGED <<exit_stack, resolutions>>

(***************************************************************************)
(* Statements.  A request executes statements through the engines of its   *)
(* sessions: while its dependencies are resolved in discovery, in its      *)
(* handler, and after process_request is over.                             *)
(***************************************************************************)
ExecPhases == {"solving", "delegating", "done"}

RECURSIVE Started(_)
\* the statements the requests of ps have started
Started(ps) ==
    IF ps = {} THEN 0
    ELSE LET p == CHOOSE q \in ps : TRUE IN
         Len(executed[p]) + (IF stmt[p] # NoStmt THEN 1 ELSE 0) + Started(ps \ {p})

\* the before_cursor_execute event of a new statement: line 31 for every
\* listener
BeforeCursorExecute(p, e) ==
    /\ pc[p] \in ExecPhases
    /\ stmt[p] = NoStmt
    /\ Started(Panels) < MaxStmts
    /\ e \in Reach(request[p])
    /\ stmt' = [stmt EXCEPT ![p] =
                  [engine |-> e, start |-> StartTime(before[e], clock),
                   sql |-> <<p, Len(executed[p]) + 1>>,
                   params |-> Params(Len(executed[p]) + 1),
                   phase |-> pc[p], executed |-> FALSE]]
    /\ UNCHANGED <<request, pc, engines, pending, exc, response, outcome, queries,
                   before, after, clock, executed, calls, manual>>
    /\ UNCHANGED <<exit_stack, resolutions>>

\* the database executes the statement, which takes one tick of the clock
CursorExecute(p) ==
    /\ stmt[p] # NoStmt
    /\ ~stmt[p].executed
    /\ clock' = IF clock < MaxClock THEN clock + 1 ELSE clock
    /\ stmt' = [stmt EXCEPT ![p].executed = TRUE]
    /\ UNCHANGED <<request, pc, engines, pending, exc, response, outcome, queries,
                   before, after, executed, calls, manual>>
    /\ UNCHANGED <<exit_stack, resolutions>>

\* the database rejects the statement: no after_cursor_execute event
StatementFails(p) ==
    /\ stmt[p] # NoStmt
    /\ ~stmt[p].executed
    /\ stmt' = [stmt EXCEPT ![p] = NoStmt]
    /\ executed' = [executed EXCEPT ![p] =
                      Append(@, [sql |-> stmt[p].sql, engine |-> stmt[p].engine,
                                 phase |-> stmt[p].phase, completed |-> FALSE])]
    /\ UNCHANGED <<request, pc, engines, pending, exc, response, outcome, queries,
                   before, after, clock, calls, manual>>
    /\ UNCHANGED <<exit_stack, resolutions>>

\* the after_cursor_execute event: lines 34-42 for every listener; a listener
\* that finds no _start_time on the context raises AttributeError
AfterCursorExecute(p) ==
    /\ stmt[p] # NoStmt
    /\ stmt[p].executed
    /\ LET ctx == stmt[p]
           listeners == IF ctx.start = NoStart THEN {} ELSE after[ctx.engine]
       IN queries' = [q \in Panels |->
                        IF q \in listeners
                        THEN add_query(queries[q], EngineUrl(ctx.engine), Query(ctx, clock))
                        ELSE queries[q]]
    /\ stmt' = [stmt EXCEPT ![p] = NoStmt]
    /\ executed' = [executed EXCEPT ![p] =
                      Append(@, [sql |-> stmt[p].sql, engine |-> stmt[p].engine,
                                 phase |-> stmt[p].phase, completed |-> TRUE])]
    /\ UNCHANGED <<request, pc, engines, pending, exc, response, outcome, before,
                   after, clock, calls, manual>>
    /\ UNCHANGED <<exit_stack, resolutions>>

(***************************************************************************)
(* unregister(engine) called directly, from outside process_request.       *)
(***************************************************************************)
ManualUnregister(p, e) ==
    /\ request[p] # NoRequest
    /\ Len(manual) < MaxManual
    /\ LET r == UnregisterResult(before, after, e, p) IN
         /\ before' = r.before
         /\ after' = r.after
         /\ manual' = Append(manual, [panel |-> p, engine |-> e,
                                      hooked |-> p \in before[e], raised |-> r.raised])
    /\ UNCHANGED <<request, pc, engines, pending, exc, response, outcome, queries,
                   clock, stmt, executed, calls>>
    /\ UNCHANGED <<exit_stack, resolutions>>

Next ==
    \/ \E p \in Panels : StartRequest(p)
    \/ \E p \in Panels : SolveOk(p)
    \/ \E p \in Panels : SolveHTTPException(p)
    \/ \E p \in Panels : SolveError(p)
    \/ \E p \in Panels, e \in Engines : Register(p, e)
    \/ \E p \in Panels : Delegate(p)
    \/ \E p \in Panels : DelegateSettles(p)
    \/ \E p \in Panels, e \in Engines : Unregister(p, e)
    \/ \E p \in Panels : Finish(p)
    \/ \E p \in Panels, e \in Engines : BeforeCursorExecute(p, e)
    \/ \E p \in Panels : CursorExecute(p)
    \/ \E p \in Panels : StatementFails(p)
    \/ \E p \in Panels : AfterCursorExecute(p)

\* requests served by the toolbar
Spec == Init /\ [][Next]_vars

NextExt ==
    \/ Next
    \/ \E p \in Panels, e \in Engines : ManualUnregister(p, e)

\* the same, with outside code that calls unregister at any time
SpecExt == Init /\ [][NextExt]_vars

(***************************************************************************)
(* Properties.                                                             *)
(***************************************************************************)
Hooked(p) == { e \in Engines : p \in before[e] \/ p \in after[e] }

\* add_engines has returned to process_request
DiscoveryReturned(p) ==
    \/ pc[p] \in {"install", "delegating", "cleanup"}
    \/ /\ pc[p] = "done"
       /\ outcome[p] \notin {Raise("UnboundExecutionError"), Raise("DependencyError"),
                             Raise("HTTPException")}

\* the records of statement sql in p's Query Log
RecordsOf(p, sql) == { i \in DOMAIN queries[p] : queries[p][i][2].sql = sql }

\* the sessions among a request's resolved values, unwrapped
Sessions(r) ==
    { Unwrap(r.values[i]) : i \in { j \in DOMAIN r.values : Unwrap(r.values[j]).kind = "Session" } }

\* C1: when super().process_request raises, process_request ends with every
\* engine it registered unregistered, no listener of the panel left on any
\* engine, and the same exception raised.
CleanupGuarantee ==
    \A p \in Panels :
        (pc[p] = "done" /\ exc[p] # "none") =>
            /\ Hooked(p) = {}
            /\ \A e \in Engines : calls[p][e].unreg = calls[p][e].reg
            /\ outcome[p] = Raise(exc[p])
            /\ outcome[p] = DelegateOutcome(request[p])

CleanupGuaranteeWitness ==
    \E p \in Panels :
        /\ pc[p] = "done" /\ exc[p] = "HandlerError"
        /\ \E e \in Engines : calls[p][e].reg = 1 /\ calls[p][e].unreg = 1
        /\ \E q \in Panels \ {p} : Hooked(q) # {}

\* C2: a statement that one request executes in its handler, with its own
\* listeners on the engine, leaves no record in the Query Log of the panel of
\* another request that listens on the same engine at that time.
Isolation ==
    \A p \in Panels : \A q \in Panels \ {p} :
        \A i \in DOMAIN executed[q] :
            executed[q][i].phase = "delegating" => RecordsOf(p, executed[q][i].sql) = {}

\* C3: when process_request has finished, by return or by an exception of any
\* phase, register and unregister were called equally often for every engine
\* and no listener of the panel is left on any engine.
InstallUninstallBalance ==
    \A p \in Panels :
        pc[p] = "done" =>
            /\ \A e \in Engines : calls[p][e].reg = calls[p][e].unreg
            /\ Hooked(p) = {}

\* C4: unregister called for an engine on which the panel has no listener
\* (never registered, or already unregistered) does not raise.
UnregisterIdempotent ==
    \A i \in DOMAIN manual : ~manual[i].hooked => ~manual[i].raised

\* C5: process_request ends the way the rest of the pipeline ends for the
\* request: it returns its response or raises its exception.
OutcomeTransparency ==
    \A p \in Panels : pc[p] = "done" => outcome[p] = DelegateOutcome(request[p])

\* a request all of whose sessions are bound to one and the same engine
SingleBound(r) ==
    /\ r.dependant /\ r.solve = "ok"
    /\ Sessions(r) # {}
    /\ \A v \in Sessions(r) : v.binds = <<>> /\ v.bind.type # "Unbound"
    /\ Cardinality(BoundEngines(r)) = 1

\* what C6 says of the statements a request executes in the phases ph
TimedRecords(ph) ==
    \A p \in Panels :
        SingleBound(request[p]) =>
            /\ DiscoveryReturned(p) => engines[p] = BoundEngines(request[p])
            /\ \A i \in DOMAIN queries[p] : queries[p][i][2].duration >= 0
            /\ \A i \in DOMAIN executed[p] :
                 executed[p][i].phase \in ph =>
                     Cardinality(RecordsOf(p, executed[p][i].sql))
                         = IF executed[p][i].completed THEN 1 ELSE 0

\* C6, as stated: for a request whose sessions are bound to a single engine,
\* that engine alone is discovered, and every statement the request executes
\* before process_request is over leaves exactly one record of non-negative
\* duration in its Query Log when it completes, and none when it does not.
TimedRecordsInRequest == TimedRecords({"solving", "delegating"})

\* C6, amended: the same of every statement executed by the delegated
\* processing of the request.
TimedRecordsInDelegate == TimedRecords({"delegating"})

TimedRecordsWitness ==
    \E p \in Panels :
        /\ SingleBound(request[p]) /\ pc[p] = "done"
        /\ Len(executed[p]) = 2
        /\ executed[p][1].phase = "delegating" /\ executed[p][1].completed
        /\ executed[p][2].phase = "delegating" /\ ~executed[p][2].completed
        /\ Len(queries[p]) = 1 /\ queries[p][1][2].duration > 0

\* a request with a session bound to several engines, all of whose sessions
\* can be asked for their engines
Sharded(r) ==
    /\ r.dependant /\ r.solve = "ok"
    /\ \E v \in Sessions(r) : v.binds # <<>>
    /\ \A v \in Sessions(r) : v.binds # <<>> \/ v.bind.type # "Unbound"

\* C7: for a request with a session bound to several engines, every bound
\* engine is in the Engine Set once discovery is over, and register is called
\* once for each of them, and for no engine twice.
ShardedEnginesOnce ==
    \A p \in Panels :
        Sharded(request[p]) =>
            /\ pc[p] \notin {"idle", "solving"} => BoundEngines(request[p]) \subseteq engines[p]
            /\ \A e \in Engines : calls[p][e].reg <= 1
            /\ pc[p] = "delegating" =>
                 \A e \in BoundEngines(request[p]) : calls[p][e].reg = 1

ShardedEnginesOnceWitness ==
    \E p \in Panels :
        /\ Sharded(request[p]) /\ pc[p] = "delegating"
        /\ Len(request[p].values) = 2
        /\ request[p].values[1] = ShardedSession
        /\ request[p].values[2] = SessionValue(<<>>, ConnectionBind("e1"))
        /\ engines[p] = Engines

\* a request without a resolvable database session
NoSessions(r) ==
    /\ r # NoRequest
    /\ \/ ~r.dependant
       \/ r.solve = "ok" /\ \A i \in DOMAIN r.values : r.values[i].kind = "other"

\* C8: for a request without a resolvable session the Engine Set stays empty,
\* register is never called, and process_request ends the way the delegate
\* ends.
NoSessionsNoHooks ==
    \A p \in Panels :
        NoSessions(request[p]) =>
            /\ engines[p] = {}
            /\ \A e \in Engines : calls[p][e].reg = 0
            /\ Hooked(p) = {}
            /\ pc[p] = "done" => outcome[p] = DelegateOutcome(request[p])

NoSessionsNoHooksWitness ==
    \E p \in Panels :
        /\ NoSessions(request[p]) /\ request[p].dependant
        /\ Len(request[p].values) = 2
        /\ pc[p] = "done" /\ outcome[p] = Return("R")
        /\ Len(executed[p]) = 1

\* C9: an HTTPException of solve_dependencies is swallowed: the Engine Set is
\* left as it was, process_request goes on to delegate and ends with the
\* delegate's response, never with an exception of discovery.
HTTPExceptionSwallowed ==
    \A p \in Panels :
        request[p].solve = "http" =>
            /\ engines[p] = {}
            /\ outcome[p].kind # "raise"
            /\ pc[p] = "done" => response[p] = "R" /\ outcome[p] = Return("R")

HTTPExceptionSwallowedWitness ==
    \E p \in Panels : request[p].solve = "http" /\ pc[p] = "delegating"

\* C10: once discovery is over for resolved values, it has raised nothing, and
\* the engines of every value that can be inspected are in the Engine Set,
\* whatever the inspection of another value did.
DiscoveryIsolation ==
    \A p \in Panels :
        (request[p].dependant /\ request[p].solve = "ok" /\ pc[p] \notin {"idle", "solving"}) =>
            /\ outcome[p] # Raise("UnboundExecutionError")
            /\ BoundEngines(request[p]) \subseteq engines[p]

\* C11: when process_request has finished, unregister has been attempted for
\* every engine it registered, also when unregister raised for one of them.
UnregisterAttemptedForAll ==
    \A p \in Panels :
        pc[p] = "done" =>
            \A e \in Engines : calls[p][e].reg > 0 => calls[p][e].unreg > 0

\* C12: a panel's unregister removes that panel's callbacks only: while a
\* request is in its delegated processing its own before and after callbacks
\* are on every engine of its Engine Set, and during its cleanup on every
\* engine not yet unregistered, whatever the install and cleanup steps of the
\* other request did meanwhile; and its handler's statements are recorded.
PreciseRemoval ==
    \A p \in Panels :
        /\ pc[p] = "delegating" =>
               \A e \in engines[p] : p \in before[e] /\ p \in after[e]
        /\ pc[p] = "cleanup" =>
               \A e \in pending[p] : p \in before[e] /\ p \in after[e]
        /\ \A i \in DOMAIN executed[p] :
               (/\ executed[p][i].phase = "delegating"
                /\ executed[p][i].completed
                /\ executed[p][i].engine \in engines[p])
                   => RecordsOf(p, executed[p][i].sql) # {}

\* one request has finished its cleanup of the shared engine e1 while the
\* other is still in its handler, hooked on e1, with a statement in flight
PreciseRemovalWitness ==
    \E p, q \in Panels :
        /\ p # q
        /\ pc[p] = "done"
        /\ calls[p]["e1"].reg = 1
        /\ calls[p]["e1"].unreg = 1
        /\ pc[q] = "delegating"
        /\ "e1" \in engines[q]
        /\ q \in before["e1"] /\ q \in after["e1"]
        /\ stmt[q] # NoStmt
        /\ stmt[q].engine = "e1"
        /\ stmt[q].start # NoStart

\* C13: every process_request goes through discovery, install, delegation and
\* cleanup in that order, and never terminates without having run the cleanup
\* step: its position only moves along that order, and it reaches its end
\* only from the cleanup step.
LifecycleOrder ==
    [][\A p \in Panels :
          pc'[p] # pc[p] =>
              <<pc[p], pc'[p]>> \in {<<"idle", "solving">>, <<"idle", "install">>,
                                     <<"solving", "install">>,
                                     <<"install", "delegating">>,
                                     <<"delegating", "cleanup">>,
                                     <<"cleanup", "done">>}]_vars

\* C14: the duration of every record appended for a statement is the time from
\* the start stored on that statement's own execution context by its before
\* event to its after event, whatever other statements began or ended in
\* between, and the record carries that statement's text.
OwnStartTime ==
    [][\A p, q \in Panels :
          (/\ stmt[p] # NoStmt
           /\ stmt'[p] = NoStmt
           /\ Len(queries'[q]) > Len(queries[q]))
              => LET rec == queries'[q][Len(queries'[q])][2] IN
                   /\ stmt[p].start # NoStart
                   /\ rec.duration = (clock - stmt[p].start) * 1000
                   /\ rec.sql = stmt[p].sql]_vars

\* two statements interleaved on the hooked engine e1: the first began at 0 and
\* was recorded with the two ticks it took, the second began at 1 and is still
\* in flight
OwnStartTimeWitness ==
    \E p, q \in Panels :
        /\ p # q
        /\ stmt[q] # NoStmt
        /\ stmt[q].engine = "e1"
        /\ stmt[q].start = 1
        /\ stmt[q].executed
        /\ \E i \in DOMAIN queries[p] :
              /\ queries[p][i][1] = EngineUrl("e1")
              /\ queries[p][i][2].sql = <<p, 1>>
              /\ queries[p][i][2].duration = 2000

\* what one resolved value contributes to the Engine Set
Contribution(value) ==
    IF value.kind \notin {"Session", "AsyncSession"} THEN {}
    ELSE IF value.binds # <<>>
    THEN { value.binds[i].engine : i \in DOMAIN value.binds }
    ELSE {value.bind.engine}

\* C15: when discovery has returned, the Engine Set is exactly the union over
\* the resolved values of: every engine of a session's non-empty multi-engine
\* binding, else the session's single engine, an async session counting as its
\* synchronous session, a Connection as its engine, other values as nothing.
DiscoveryRule ==
    \A p \in Panels :
        DiscoveryReturned(p) =>
            engines[p] =
                IF request[p].dependant /\ request[p].solve = "ok"
                THEN UNION { Contribution(request[p].values[i]) :
                                i \in DOMAIN request[p].values }
                ELSE {}

\* discovery has returned for an async session on e2 and a session whose bind
\* is a Connection of e1
DiscoveryRuleWitness ==
    \E p \in Panels :
        /\ pc[p] = "install"
        /\ request[p].solve = "ok"
        /\ \E i, j \in DOMAIN request[p].values :
              /\ request[p].values[i] = AsyncSessionValue(<<>>, EngineBind("e2"))
              /\ request[p].values[j] = SessionValue(<<>>, ConnectionBind("e1"))
        /\ engines[p] = {"e1", "e2"}

\* the engines discovery finds for a request
Discovered(r) == IF r.dependant /\ r.solve = "ok" THEN BoundEngines(r) ELSE {}

OwnRecords(p) == SelectSeq(queries[p], LAMBDA x : x[2].sql[1] = p)

\* the statements of p's handler that completed on an engine of its Engine
\* Set, in execution order
CompletedInHandler(p) ==
    SelectSeq(executed[p], LAMBDA h : /\ h.phase = "delegating"
                                      /\ h.completed
                                      /\ h.engine \in engines[p])

\* C17: the records of a request's statements are in its Query Log in the
\* order the statements were executed, one for each statement the handler
\* completed on a hooked engine, each under the URL of its statement's engine
\* and with the text and the parameters of that statement.
RecordsInExecutionOrder ==
    \A p \in Panels :
        /\ Len(OwnRecords(p)) = Len(CompletedInHandler(p))
        /\ \A i \in DOMAIN OwnRecords(p) :
              LET rec == OwnRecords(p)[i]
                  s == CompletedInHandler(p)[i]
              IN /\ rec[1] = EngineUrl(s.engine)
                 /\ rec[2].sql = s.sql
                 /\ rec[2].params = Params(s.sql[2])

\* two statements S1 then S2 through e1: the log is [record(S1), record(S2)]
RecordsInExecutionOrderWitness ==
    \E p \in Panels :
        /\ Len(queries[p]) = 2
        /\ queries[p][1][1] = EngineUrl("e1") /\ queries[p][2][1] = EngineUrl("e1")
        /\ queries[p][1][2].sql = <<p, 1>> /\ queries[p][1][2].params = Params(1)
        /\ queries[p][2][2].sql = <<p, 2>> /\ queries[p][2][2].params = Params(2)

\* C18: a Query Log grows only by the record of a statement that completes on
\* an engine carrying that panel's hook, between the panel's install and its
\* cleanup: never during its discovery, never after its cleanup.
RecordsOnlyWhileInstalled ==
    [][\A q \in Panels :
          queries'[q] # queries[q] =>
              /\ pc[q] \in {"install", "delegating", "cleanup"}
              /\ \E p \in Panels :
                    /\ stmt[p] # NoStmt
                    /\ stmt[p].executed
                    /\ stmt'[p] = NoStmt
                    /\ q \in after[stmt[p].engine]
                    /\ queries'[q] =
                          Append(queries[q],
                                 <<EngineUrl(stmt[p].engine),
                                   [duration |-> (clock - stmt[p].start) * 1000,
                                    sql |-> stmt[p].sql,
                                    params |-> stmt[p].params]>>)]_vars

\* a request has finished after a statement of its discovery and a statement
\* after its cleanup, both completed on its engine: its Query Log is empty
RecordsOnlyWhileInstalledWitness ==
    \E p \in Panels :
        /\ pc[p] = "done"
        /\ outcome[p].kind = "return"
        /\ engines[p] # {}
        /\ Len(executed[p]) = 2
        /\ executed[p][1].phase = "solving" /\ executed[p][1].completed
        /\ executed[p][2].phase = "done" /\ executed[p][2].completed
        /\ executed[p][1].engine \in engines[p]
        /\ executed[p][2].engine \in engines[p]
        /\ calls[p][executed[p][2].engine] = [reg |-> 1, unreg |-> 1]
        /\ queries[p] = <<>>

\* C19: the exit stack discovery hands to the speculative resolution is never
\* closed: the callbacks pushed on it for the resolved sessions are all still
\* on it, not run, at every point up to and after the end of process_request,
\* and by then the request's dependency graph has been resolved twice, once by
\* discovery and once by the delegate.
ExitStackNeverClosed ==
    \A p \in Panels :
        /\ ~exit_stack[p].closed
        /\ (pc[p] \notin {"idle", "solving"} /\ request[p].dependant
                /\ request[p].solve = "ok")
              => /\ exit_stack[p].created
                 /\ exit_stack[p].callbacks = ExitCallbacks(request[p])
        /\ (request[p].dependant /\ DiscoveryReturned(p)
                /\ pc[p] \in {"delegating", "cleanup", "done"})
              => resolutions[p] = 2

\* process_request has returned the response of a request with a resolved
\* session: the session's exit callback is still on the open stack
ExitStackNeverClosedWitness ==
    \E p \in Panels :
        /\ pc[p] = "done"
        /\ outcome[p].kind = "return"
        /\ exit_stack[p].created
        /\ exit_stack[p].callbacks # {}
        /\ ~exit_stack[p].closed
        /\ resolutions[p] = 2
====
